---- MODULE Spec2Model ----
(***************************************************************************)
(* Model of the Bayrol Poolmanager client (api.py, const.py, sensor.py).   *)
(*                                                                         *)
(* PoolPumpAPI is a set of coroutines over one httpx session.  Every       *)
(* `await self._session.get/post` is a suspension point; the model takes   *)
(* one step per request: the request is sent, the device (the              *)
(* environment) answers with any response of a bounded set, and the        *)
(* coroutine runs up to its next request or to its return.  Nested         *)
(* coroutine calls are frames of `stack`.                                  *)
(*                                                                         *)
(* Response bodies are sequences of tokens (markup tags, words, blanks),   *)
(* so that the regular-expression searches of the code are searches the    *)
(* model performs, not outcomes it assumes.                                *)
(***************************************************************************)
EXTENDS Integers, Sequences, FiniteSets, TLC

VARIABLES
    params,         \* self._session.params: the "sid" parameter, or NoSid
    current_data,   \* self._current_data: wire key -> last value stored
    stack,          \* suspended coroutine frames, innermost last
    call,           \* the operation the caller invoked last, with its argument
    result,         \* how that invocation ended (Pending while it runs)
    trace,          \* requests sent and coroutine returns since the invocation
    last_response,  \* the response consumed by the step that ended the invocation
    seen,           \* history: wire key -> value of the latest data map holding it
    tasks,          \* get_filter_pump_data calls running as concurrent tasks
    sensors         \* sensor.py: the two sensor entities polling the client

vars ==
    <<params, current_data, stack, call, result, trace, last_response, seen, tasks, sensors>>

-----------------------------------------------------------------------------
(* Bounds of the model *)

\* data values the device reports are 1..MaxVal (ECO = 1, NORMAL = 2 are among them)
MaxVal == 2
\* longest list handed to get_filter_pump_data
MaxLen == 2
\* number of distinct session tokens the device hands out
MaxTokens == 2

-----------------------------------------------------------------------------
(* const.py *)

\* class PumpMode(Enum): member name -> value
PumpMode == [ECO |-> 1, NORMAL |-> 2, HIGH |-> 4, AUTO |-> 8, OFF |-> 16]

PumpModeNames == DOMAIN PumpMode

\* class PumpData(Enum): member name -> value (the wire key)
PumpData ==
    [TEMPERATURE |-> "34.4033.value",
     PH_VALUE |-> "34.4001.value",
     CURRENT_PUMP_MODE |-> "60.5427.value"]

\* PumpData.__members__
PumpDataMembers == DOMAIN PumpData

WireKeys == {PumpData[n] : n \in PumpDataMembers}

-----------------------------------------------------------------------------
(* Values *)

NoSid == "<no sid>"

Tokens == {"AB12CD", "ZZ99", "Q7"}

\* the tokens the device hands out within the bound
SessionTokens ==
    IF MaxTokens >= 3 THEN Tokens
    ELSE IF MaxTokens = 2 THEN {"AB12CD", "ZZ99"}
    ELSE {"AB12CD"}

Values == 1..MaxVal

\* finite maps wire key -> value (a JSON "data" object, the snapshot)
DataMaps == UNION {[S -> Values] : S \in SUBSET WireKeys}

EmptyMap == [k \in {} |-> 0]

Range(s) == {s[i] : i \in 1..Len(s)}

Last(s) == s[Len(s)]

Front(s) == SubSeq(s, 1, Len(s) - 1)

\* Python values a coroutine hands back
PyTrue == [kind |-> "return", val |-> "True", map |-> EmptyMap]

PyFalse == [kind |-> "return", val |-> "False", map |-> EmptyMap]

PyNone == [kind |-> "return", val |-> "None", map |-> EmptyMap]

PyBool(b) == IF b THEN PyTrue ELSE PyFalse

PyDict(m) == [kind |-> "return", val |-> "dict", map |-> m]

PyRaise(exc) == [kind |-> "raise", val |-> exc, map |-> EmptyMap]

Pending == [kind |-> "pending", val |-> "", map |-> EmptyMap]

\* Python truth of a returned value (`if await ...`, `not await ...`)
Truthy(v) == v.kind = "return" /\ v.val = "True"

-----------------------------------------------------------------------------
(* Responses of the device *)

\* response.json(): parse is "bad" when the body is no JSON, "array" for a
\* JSON document that is no object; an object may hold "event" (an object
\* that may hold "data") and a "data" map.
NoJson == [parse |-> "bad", event |-> "<missing>", hasData |-> FALSE, data |-> EmptyMap]

ArrayJson == [parse |-> "array", event |-> "<missing>", hasData |-> FALSE, data |-> EmptyMap]

EventCodes == {"3.16912.0", "1.1360.0"}

EventJson(e) == [parse |-> "object", event |-> e, hasData |-> FALSE, data |-> EmptyMap]

EmptyObjectJson == EventJson("<missing>")

DataJson(m) == [parse |-> "object", event |-> "<missing>", hasData |-> TRUE, data |-> m]

\* answers to a command that sets fields: an event echo, or none
EventBodies ==
    {NoJson, ArrayJson, EmptyObjectJson, EventJson("<no data>")}
    \cup {EventJson(e) : e \in EventCodes}

\* answers to a command that gets fields: a data map, or none
DataBodies ==
    {NoJson, ArrayJson, EmptyObjectJson} \cup {DataJson(m) : m \in DataMaps}

TransportError == [kind |-> "error", status |-> 0, text |-> <<>>, json |-> NoJson]

Http(status, text, json) == [kind |-> "http", status |-> status, text |-> text, json |-> json]

NoResponse == [kind |-> "none", status |-> 0, text |-> <<>>, json |-> NoJson]

Titled(words) == <<"<title>">> \o words \o <<"</title>">>

\* markup bodies, as token sequences
TitledBodies ==
    {Titled(<<"icon">>), Titled(<<" ", "icon", " ">>), Titled(<<"PM5">>),
     Titled(<<"Can Fig", " ", "Pool">>), Titled(<<"menu">>), Titled(<<"error">>),
     Titled(<<>>),
     Titled(<<"access">>),
     Titled(<<"access">>) \o <<"42.8021.code">>,
     Titled(<<" ", "access">>) \o <<"input", "42.8022.code", "42.8021.code">>}

UntitledBodies ==
    {<<"<html>">>, <<"<title>", "icon">>, <<"wui.init('", "'">>}
    \cup {<<"wui.init('", t, "'">> : t \in SessionTokens}

StatusCodes == {200, 204, 500}

\* what a GET of a page can deliver
PageResponses ==
    {TransportError}
    \cup {Http(200, b, NoJson) : b \in TitledBodies \cup UntitledBodies}
    \cup {Http(s, <<"<html>">>, NoJson) : s \in StatusCodes}
    \cup {Http(500, Titled(<<"icon">>) \o <<"wui.init('", "AB12CD", "'">>, NoJson)}

\* what a POST of a {"set": ...} command can deliver
CommandResponses ==
    {TransportError} \cup {Http(200, <<>>, j) : j \in EventBodies}

\* what a POST of a {"get": ...} command can deliver
DataResponses ==
    {TransportError} \cup {Http(200, <<>>, j) : j \in DataBodies}

\* what the POST of the pump command can deliver: of the keys it gets and sets
\* only the pump mode is a modelled wire key
PumpResponses ==
    {r \in DataResponses : DOMAIN r.json.data \subseteq {PumpData.CURRENT_PUMP_MODE}}

-----------------------------------------------------------------------------
(* Regular-expression searches over token sequences *)

\* indices i of `text` with text[i] = tok
Positions(text, tok) == {i \in 1..Len(text) : text[i] = tok}

Min(S) == CHOOSE x \in S : \A y \in S : x <= y

Max(S) == CHOOSE x \in S : \A y \in S : x >= y

IsBlank(w) == w = " "

\* str.strip(): the words without leading and trailing blanks
Strip(words) ==
    LET keep == {i \in 1..Len(words) : ~IsBlank(words[i])}
    IN  IF keep = {} THEN <<>> ELSE SubSeq(words, Min(keep), Max(keep))

\* extract_title: re.search(r"<title>(.*?)</title>", text, re.DOTALL), then
\* group(1).strip(); found = FALSE is the None whose .group raises AttributeError
extract_title(response) ==
    LET text == response.text
        opens == {i \in Positions(text, "<title>") :
                     \E j \in Positions(text, "</title>") : j > i}
    IN  IF opens = {} THEN [found |-> FALSE, title |-> <<>>]
        ELSE LET i == Min(opens)
                 j == Min({k \in Positions(text, "</title>") : k > i})
             IN  [found |-> TRUE, title |-> Strip(SubSeq(text, i + 1, j - 1))]

\* re.search(r"wui\.init\('([A-Za-z0-9]+)'", text): the token of the first marker
SearchSid(text) ==
    LET hits == {i \in 1..(Len(text) - 2) :
                    /\ text[i] = "wui.init('"
                    /\ text[i + 1] \in Tokens
                    /\ text[i + 2] = "'"}
    IN  IF hits = {} THEN [found |-> FALSE, sid |-> NoSid]
        ELSE [found |-> TRUE, sid |-> text[Min(hits) + 1]]

CodeFields == {"42.8021.code", "42.8022.code"}

\* re.search(r"42\.802\d\.code", res.text): the first field name in the body
SearchCodeField(text) ==
    LET hits == {i \in 1..Len(text) : text[i] \in CodeFields}
    IN  IF hits = {} THEN [found |-> FALSE, key |-> ""]
        ELSE [found |-> TRUE, key |-> text[Min(hits)]]

-----------------------------------------------------------------------------
(* Coroutine frames and what a coroutine does next *)

NoLocals == [key |-> "", response |-> NoResponse]

NoArg == [level |-> 0, mode |-> "", isList |-> TRUE, data |-> <<>>]

LevelArg(level) == [NoArg EXCEPT !.level = level]

ModeArg(mode) == [NoArg EXCEPT !.mode = mode]

DataArg(isList, data) == [NoArg EXCEPT !.isList = isList, !.data = data]

Frame(fn, pc, arg) == [fn |-> fn, pc |-> pc, arg |-> arg, loc |-> NoLocals]

\* the coroutine ends with value or exception v
DoReturn(v) == [do |-> "return", v |-> v, pc |-> "", loc |-> NoLocals, fn |-> "", arg |-> NoArg]

\* the coroutine goes on to its request at pc, with locals loc
DoGoto(pc, loc) == [do |-> "goto", v |-> Pending, pc |-> pc, loc |-> loc, fn |-> "", arg |-> NoArg]

\* the coroutine awaits fn(arg) and resumes at pc with its value
DoCall(fn, arg, pc) == [do |-> "call", v |-> Pending, pc |-> pc, loc |-> NoLocals, fn |-> fn, arg |-> arg]

\* trace entries
Request(method, what, sid, pay, out) ==
    [req |-> method, what |-> what, sid |-> sid, pay |-> pay, out |-> out]

Returned(fn, sid, v) ==
    [req |-> "return", what |-> fn, sid |-> sid, pay |-> <<>>, out |-> <<v.kind, v.val>>]

\* the "event"/"data" field of a response as a log entry shows it
EventOf(r) ==
    IF r.kind = "error" THEN "<error>"
    ELSE IF r.json.parse # "object" THEN "<" \o r.json.parse \o ">"
    ELSE r.json.event

-----------------------------------------------------------------------------
(* get_session_id, api.py 25-44 *)

\* the value get_session_id returns on response r
get_session_id(r) ==
    IF r.kind = "error" THEN DoReturn(PyFalse)
    ELSE IF ~SearchSid(r.text).found THEN DoReturn(PyFalse)
    ELSE DoReturn(PyTrue)

\* a bootstrap that does not keep the token
get_session_id_params_dropped(r, old) == old

\* self._session.params after get_session_id handled response r
get_session_id_params(r, old) ==
    IF r.kind # "error" /\ SearchSid(r.text).found THEN SearchSid(r.text).sid ELSE old

-----------------------------------------------------------------------------
(* authenticated, api.py 81-108 *)

\* a probe that takes every titled answer for an authenticated session
TitleAuthenticatedLax(title) == title # <<"PM5">>

\* lines 96-108: the classification of the title
TitleAuthenticated(title) ==
    IF title = <<"icon">> THEN TRUE
    ELSE IF title = <<"PM5">> THEN FALSE
    ELSE IF \E i \in 1..Len(title) : title[i] = "Can Fig" THEN FALSE
    ELSE FALSE

authenticated(r) ==
    IF r.kind = "error" THEN DoReturn(PyFalse)
    ELSE IF ~extract_title(r).found THEN DoReturn(PyRaise("AttributeError"))
    ELSE DoReturn(PyBool(TitleAuthenticated(extract_title(r).title)))

-----------------------------------------------------------------------------
(* login, api.py 46-79 *)

\* a login that bootstraps on every call
login_entry_always_bootstrap(sid) == DoCall("get_session_id", NoArg, "login_wait_sid")

\* lines 49-54: bootstrap when no sid is held, then probe
login_entry(sid) ==
    IF sid = NoSid THEN DoCall("get_session_id", NoArg, "login_wait_sid")
    ELSE DoCall("authenticated", NoArg, "login_wait_probe")

\* line 76: login_response.json()["event"]["data"] == "3.16912.0"
expected_result(json) == json.event = "3.16912.0"

\* a login that trusts the write response alone
login_post_trusting(r) ==
    IF r.kind = "error" THEN DoReturn(PyFalse)
    ELSE IF r.json.parse = "bad" THEN DoReturn(PyFalse)
    ELSE IF r.json.parse = "array" THEN DoReturn(PyRaise("TypeError"))
    ELSE IF r.json.event \in {"<missing>", "<no data>"} THEN DoReturn(PyRaise("KeyError"))
    ELSE IF expected_result(r.json) THEN DoReturn(PyTrue)
    ELSE DoReturn(PyNone)

\* lines 66-79: the credential write was answered by r
login_post(r) ==
    IF r.kind = "error" THEN DoReturn(PyFalse)
    ELSE IF r.json.parse = "bad" THEN DoReturn(PyFalse)
    ELSE IF r.json.parse = "array" THEN DoReturn(PyRaise("TypeError"))
    ELSE IF r.json.event \in {"<missing>", "<no data>"} THEN DoReturn(PyRaise("KeyError"))
    ELSE IF expected_result(r.json) THEN DoCall("authenticated", NoArg, "login_wait_confirm")
    ELSE DoReturn(PyNone)

\* a login that writes the credentials whatever the first probe said
login_resume_always_write(pc, v) ==
    CASE pc = "login_wait_sid" -> DoCall("authenticated", NoArg, "login_wait_probe")
      [] pc = "login_wait_probe" -> DoGoto("login_post", NoLocals)
      [] pc = "login_wait_confirm" -> IF Truthy(v) THEN DoReturn(PyTrue) ELSE DoReturn(PyNone)

\* login resumes at pc with the value v of the coroutine it awaited
login_resume(pc, v) ==
    CASE pc = "login_wait_sid" -> DoCall("authenticated", NoArg, "login_wait_probe")
      [] pc = "login_wait_probe" ->
            IF Truthy(v) THEN DoReturn(PyTrue) ELSE DoGoto("login_post", NoLocals)
      [] pc = "login_wait_confirm" ->
            IF Truthy(v) THEN DoReturn(PyTrue) ELSE DoReturn(PyNone)

-----------------------------------------------------------------------------
(* elevate_service_level, api.py 110-168 *)

\* lines 112-115
service_level_map == [l \in {1, 2} |-> IF l = 1 THEN 1234 ELSE 5678]

\* an elevation that does not validate the level first
elevate_service_level_entry_unchecked(arg) ==
    DoCall("authenticated", NoArg, "elevate_wait_probe")

\* lines 117-122
elevate_service_level_entry(arg) ==
    IF arg.level \notin DOMAIN service_level_map THEN DoReturn(PyRaise("ValueError"))
    ELSE DoCall("authenticated", NoArg, "elevate_wait_probe")

\* lines 122-125
elevate_service_level_resume(pc, v) ==
    CASE pc = "elevate_wait_probe" ->
            IF Truthy(v) THEN DoGoto("elevate_preflight", NoLocals)
            ELSE DoCall("login", NoArg, "elevate_wait_login")
      [] pc = "elevate_wait_login" ->
            IF Truthy(v) THEN DoGoto("elevate_preflight", NoLocals)
            ELSE DoReturn(PyFalse)

\* what the log shows of a preflight answer: how it was read, the title, and
\* the code-field names of the body in their order
PreflightOut(r) ==
    IF r.kind = "error" THEN <<"error", <<>>, <<>>>>
    ELSE IF ~extract_title(r).found THEN <<"no title", <<>>, <<>>>>
    ELSE <<"title", extract_title(r).title, SelectSeq(r.text, LAMBDA w : w \in CodeFields)>>

\* a preflight that does not know the "menu" title
elevate_service_level_preflight_no_menu(r) ==
    IF r.kind = "error" THEN DoReturn(PyFalse)
    ELSE IF ~extract_title(r).found THEN DoReturn(PyFalse)
    ELSE IF extract_title(r).title = <<"access">> THEN
        IF SearchCodeField(r.text).found
        THEN DoGoto("elevate_post", [key |-> SearchCodeField(r.text).key, response |-> NoResponse])
        ELSE DoReturn(PyFalse)
    ELSE DoReturn(PyFalse)

\* lines 128-147: the preflight read was answered by r
elevate_service_level_preflight(r) ==
    IF r.kind = "error" THEN DoReturn(PyFalse)
    ELSE IF ~extract_title(r).found THEN DoReturn(PyFalse)
    ELSE IF extract_title(r).title = <<"access">> THEN
        IF SearchCodeField(r.text).found
        THEN DoGoto("elevate_post", [key |-> SearchCodeField(r.text).key, response |-> NoResponse])
        ELSE DoReturn(PyFalse)
    ELSE IF extract_title(r).title = <<"menu">> THEN DoReturn(PyTrue)
    ELSE DoReturn(PyFalse)

\* line 150: the payload {"set": {key: str(service_level_map[level])}}
elevate_service_level_payload(frame) == <<frame.loc.key, service_level_map[frame.arg.level]>>

\* line 155: the unlock write was answered by r
elevate_service_level_post(frame, r) ==
    IF r.kind = "error" THEN DoReturn(PyFalse)
    ELSE DoGoto("elevate_confirm", [frame.loc EXCEPT !.response = r])

\* a confirmation that looks at the status of the read alone
elevate_service_level_confirm_status_only(frame, r2) ==
    IF r2.kind = "error" THEN DoReturn(PyFalse)
    ELSE IF frame.loc.response.json.parse # "object" THEN DoReturn(PyFalse)
    ELSE DoReturn(PyBool(r2.status = 200))

\* lines 158-168: the confirmation read was answered by r2
elevate_service_level_confirm(frame, r2) ==
    IF r2.kind = "error" THEN DoReturn(PyFalse)
    ELSE IF frame.loc.response.json.parse # "object" THEN DoReturn(PyFalse)
    ELSE DoReturn(PyBool(frame.loc.response.json.event = "1.1360.0" /\ r2.status = 200))

-----------------------------------------------------------------------------
(* set_filter_pump_mode, api.py 170-207 *)

\* attribute access PumpData.<name>: AttributeError unless name is a member
PumpDataAttr(name) ==
    IF name \in PumpDataMembers THEN [found |-> TRUE, value |-> PumpData[name]]
    ELSE [found |-> FALSE, value |-> ""]

\* lines 172-181
set_filter_pump_mode_resume(pc, v) ==
    CASE pc = "set_wait_probe" ->
            IF Truthy(v) THEN DoCall("elevate_service_level", LevelArg(2), "set_wait_elevate")
            ELSE DoCall("login", NoArg, "set_wait_login")
      [] pc = "set_wait_login" ->
            IF Truthy(v) THEN DoCall("elevate_service_level", LevelArg(2), "set_wait_elevate")
            ELSE DoReturn(PyFalse)
      [] pc = "set_wait_elevate" ->
            IF Truthy(v) THEN DoGoto("set_post", NoLocals) ELSE DoReturn(PyFalse)

\* lines 188-207: the get+set write was answered by r.  The else branch reads
\* PumpData.PUMP_MODE, which const.py does not define.
set_filter_pump_mode_post(frame, r) ==
    IF r.kind = "error" THEN DoReturn(PyFalse)
    ELSE IF r.json.parse = "bad" THEN DoReturn(PyFalse)
    ELSE IF r.json.parse = "array" THEN DoReturn(PyRaise("AttributeError"))
    ELSE IF ~r.json.hasData THEN DoReturn(PyRaise("AttributeError"))
    ELSE IF ~PumpDataAttr("PUMP_MODE").found THEN DoReturn(PyRaise("AttributeError"))
    ELSE LET key == PumpDataAttr("PUMP_MODE").value
         IN  DoReturn(PyBool(key \in DOMAIN r.json.data
                             /\ r.json.data[key] = PumpMode[frame.arg.mode]))

\* self._current_data after line 203
set_filter_pump_mode_data(r, old) ==
    IF r.kind = "error" \/ r.json.parse # "object" \/ ~r.json.hasData THEN old
    ELSE IF ~PumpDataAttr("PUMP_MODE").found THEN old
    ELSE LET key == PumpDataAttr("PUMP_MODE").value
         IN  IF key \in DOMAIN r.json.data
             THEN [k \in DOMAIN old \cup {key} |->
                      IF k = key THEN r.json.data[key] ELSE old[k]]
             ELSE old

-----------------------------------------------------------------------------
(* get_filter_pump_data, api.py 209-242 *)

\* objects a caller can put in the list: members of the two enumerations and a
\* plain string (which has no .name)
Member(cls, name) == [cls |-> cls, name |-> name]

DataElements ==
    {Member("PumpData", n) : n \in PumpDataMembers}
    \cup {Member("PumpMode", "ECO"), Member("str", "")}

HasName(d) == d.cls # "str"

\* d.value of a list element
ValueOf(d) == IF d.cls = "PumpData" THEN PumpData[d.name] ELSE d.name

\* lines 214-218: isinstance(data, list), then all(d.name in __members__)
get_filter_pump_data_entry(arg) ==
    IF ~arg.isList THEN DoReturn(PyRaise("TypeError"))
    ELSE LET bad == {i \in 1..Len(arg.data) :
                        ~HasName(arg.data[i]) \/ arg.data[i].name \notin PumpDataMembers}
         IN  IF bad = {} THEN DoGoto("get_post", NoLocals)
             ELSE IF ~HasName(arg.data[Min(bad)]) THEN DoReturn(PyRaise("AttributeError"))
             ELSE DoReturn(PyRaise("TypeError"))

\* line 225: [d.value for d in data]
get_filter_pump_data_payload(arg) == [i \in 1..Len(arg.data) |-> ValueOf(arg.data[i])]

\* a merge in which a value already held wins
MergeDataKeepOld(old, new) ==
    [k \in DOMAIN old \cup DOMAIN new |-> IF k \in DOMAIN old THEN old[k] ELSE new[k]]

\* dict.update
MergeData(old, new) ==
    [k \in DOMAIN old \cup DOMAIN new |-> IF k \in DOMAIN new THEN new[k] ELSE old[k]]

\* a snapshot replaced by the latest data map
get_filter_pump_data_replace(r, old) ==
    IF r.kind = "error" \/ r.json.parse # "object" \/ ~r.json.hasData THEN old
    ELSE r.json.data

\* a snapshot emptied by a fetch that failed
get_filter_pump_data_update_clearing(r, old) ==
    IF r.kind = "error" \/ r.json.parse # "object" \/ ~r.json.hasData THEN EmptyMap
    ELSE MergeData(old, r.json.data)

\* line 234: self._current_data after the response r
get_filter_pump_data_update(r, old) ==
    IF r.kind = "error" \/ r.json.parse # "object" \/ ~r.json.hasData THEN old
    ELSE MergeData(old, r.json.data)

\* a result that hands back every cached key
get_filter_pump_data_return_all(arg, data) == data

\* line 242: {key: self._current_data[key.value] for key in data}, keyed here
\* by the wire key of each member
get_filter_pump_data_return(arg, data) ==
    [k \in Range(get_filter_pump_data_payload(arg)) |-> data[k]]

\* lines 228-242: the read was answered by r; data is the snapshot after line 234
get_filter_pump_data_post(frame, r, data) ==
    IF r.kind = "error" THEN DoReturn(PyRaise("TransportError"))
    ELSE IF r.json.parse = "bad" THEN DoReturn(PyRaise("JSONDecodeError"))
    ELSE IF r.json.parse = "array" THEN DoReturn(PyRaise("AttributeError"))
    ELSE IF ~r.json.hasData THEN DoReturn(PyRaise("TypeError"))
    ELSE IF ~(Range(get_filter_pump_data_payload(frame.arg)) \subseteq DOMAIN data)
         THEN DoReturn(PyRaise("KeyError"))
    ELSE DoReturn(PyDict(get_filter_pump_data_return(frame.arg, data)))

-----------------------------------------------------------------------------
(* available, api.py 244-254 *)

\* a probe content with any answer
available_any_status(r) ==
    IF r.kind = "error" THEN DoReturn(PyFalse) ELSE DoReturn(PyTrue)

\* lines 246-254
available(r) ==
    IF r.kind = "error" THEN DoReturn(PyFalse) ELSE DoReturn(PyBool(r.status = 200))

-----------------------------------------------------------------------------
(* The sensor entities, sensor.py 21-115 *)

\* TemperatureSensor and PumpModeSensor
SensorNames == {"temperature", "pump_mode"}

\* lines 85, 112: the member each sensor fetches
SensorData == [temperature |-> "TEMPERATURE", pump_mode |-> "CURRENT_PUMP_MODE"]

\* what a sensor holds in _temperature / _mode: None, a number, a PumpMode member
NoReading == [isNone |-> TRUE, num |-> 0, name |-> ""]

NumberReading(n) == [isNone |-> FALSE, num |-> n, name |-> ""]

ModeReading(name) == [isNone |-> FALSE, num |-> 0, name |-> name]

\* lines 29, 76, 98: a sensor as constructed; fetched is what its last
\* get_filter_pump_data handed back, outcome how its last async_update ended
NoSensor ==
    [pc |-> "idle", available |-> FALSE, value |-> NoReading,
     fetched |-> Pending, outcome |-> Pending]

\* line 54: [data]
SensorArg(s) == DataArg(TRUE, <<Member("PumpData", SensorData[s])>>)

\* key == s for a key of the dict of api.py 242 and a str s: PumpData derives
\* from Enum alone (const.py 16), so a member equals only itself
MemberEqualsStr(key, s) == key.cls = "str" /\ key.name = s

\* result.get(s) on the dict get_filter_pump_data handed back for arg, whose
\* keys are the elements of arg.data
DictGet(arg, map, s) ==
    LET hits == {i \in 1..Len(arg.data) : MemberEqualsStr(arg.data[i], s)}
    IN  IF hits = {} THEN NoReading
        ELSE NumberReading(map[ValueOf(arg.data[Max(hits)])])

\* lines 53-63: v is what get_filter_pump_data handed back or raised
fetch_data(v) ==
    IF v.kind = "raise" THEN [available |-> FALSE, status |-> PyNone]
    ELSE [available |-> v # PyNone, status |-> v]

\* `if result:` for None or a dict
DictTruthy(status) == status.val = "dict" /\ DOMAIN status.map # {}

\* PumpMode(n): the members with value n
PumpModeOf(n) == {name \in PumpModeNames : PumpMode[name] = n}

\* lines 83-87: the sensor after async_update got v from the client
TemperatureSensor_async_update(sensor, v) ==
    LET f == fetch_data(v)
        base == [sensor EXCEPT !.pc = "idle", !.available = f.available, !.fetched = v,
                               !.outcome = PyNone]
    IN  IF ~DictTruthy(f.status) THEN base
        ELSE [base EXCEPT !.value = DictGet(SensorArg("temperature"), f.status.map,
                                            PumpData.TEMPERATURE)]

\* lines 110-115: int(None) raises TypeError, PumpMode(n) of no member ValueError
PumpModeSensor_async_update(sensor, v) ==
    LET f == fetch_data(v)
        base == [sensor EXCEPT !.pc = "idle", !.available = f.available, !.fetched = v,
                               !.outcome = PyNone]
        got == DictGet(SensorArg("pump_mode"), f.status.map, PumpData.CURRENT_PUMP_MODE)
    IN  IF ~DictTruthy(f.status) THEN base
        ELSE IF got.isNone THEN [base EXCEPT !.outcome = PyRaise("TypeError")]
        ELSE IF PumpModeOf(got.num) = {} THEN [base EXCEPT !.outcome = PyRaise("ValueError")]
        ELSE [base EXCEPT !.value = ModeReading(CHOOSE name \in PumpModeOf(got.num) : TRUE)]

async_update(s, sensor, v) ==
    IF s = "temperature" THEN TemperatureSensor_async_update(sensor, v)
    ELSE PumpModeSensor_async_update(sensor, v)

\* lines 81, 103: the state property
state(sensor) == IF sensor.available THEN sensor.value ELSE NoReading

-----------------------------------------------------------------------------
(* Running the coroutines *)

\* the first thing coroutine fn does when called with arg
Entry(fn, arg, sid) ==
    CASE fn = "get_session_id" -> DoGoto("sid_get", NoLocals)
      [] fn = "authenticated" -> DoGoto("probe_get", NoLocals)
      [] fn = "login" -> login_entry(sid)
      [] fn = "elevate_service_level" -> elevate_service_level_entry(arg)
      [] fn = "set_filter_pump_mode" -> DoCall("authenticated", NoArg, "set_wait_probe")
      [] fn = "get_filter_pump_data" -> get_filter_pump_data_entry(arg)
      [] fn = "available" -> DoGoto("available_get", NoLocals)

\* what coroutine fn, suspended at pc, does with the value v it awaited
Resume(fn, pc, v) ==
    CASE fn = "login" -> login_resume(pc, v)
      [] fn = "elevate_service_level" -> elevate_service_level_resume(pc, v)
      [] fn = "set_filter_pump_mode" -> set_filter_pump_mode_resume(pc, v)

\* The innermost frame of stk decided d: run up to the next request.  No await
\* of a nested coroutine sits in a try block, so an exception unwinds the stack.
RECURSIVE Apply(_, _, _, _)
Apply(stk, d, sid, tr) ==
    LET f == Last(stk)
        rest == Front(stk)
    IN  CASE d.do = "goto" ->
                [stack |-> Append(rest, [f EXCEPT !.pc = d.pc, !.loc = d.loc]),
                 result |-> Pending, trace |-> tr]
          [] d.do = "call" ->
                Apply(Append(Append(rest, [f EXCEPT !.pc = d.pc]), Frame(d.fn, "entry", d.arg)),
                      Entry(d.fn, d.arg, sid), sid, tr)
          [] d.do = "return" ->
                LET tr2 == Append(tr, Returned(f.fn, sid, d.v))
                IN  IF rest = <<>> THEN [stack |-> <<>>, result |-> d.v, trace |-> tr2]
                    ELSE IF d.v.kind = "raise" THEN Apply(rest, DoReturn(d.v), sid, tr2)
                    ELSE Apply(rest, Resume(Last(rest).fn, Last(rest).pc, d.v), sid, tr2)

Idle == stack = <<>>

At(pc) == stack # <<>> /\ Last(stack).pc = pc

\* the caller invokes coroutine fn with arg
Invoke(fn, arg) ==
    /\ Idle
    /\ LET o == Apply(<<Frame(fn, "entry", arg)>>, Entry(fn, arg, params), params, <<>>)
       IN  /\ stack' = o.stack
           /\ result' = o.result
           /\ trace' = o.trace
    /\ call' = [fn |-> fn, arg |-> arg]
    /\ last_response' = NoResponse
    /\ UNCHANGED <<params, current_data, seen, tasks, sensors>>

\* the innermost coroutine got response r to the request logged as entry and decided d
Continue(entry, r, d, sid) ==
    LET o == Apply(stack, d, sid, Append(trace, entry))
    IN  /\ stack' = o.stack
        /\ result' = o.result
        /\ trace' = o.trace
        /\ last_response' = IF o.stack = <<>> THEN r ELSE NoResponse
        /\ UNCHANGED <<call, tasks, sensors>>

-----------------------------------------------------------------------------
(* Inputs of the caller *)

\* levels a caller may pass to elevate_service_level
LevelInputs == 0..3

\* modes a caller may pass to set_filter_pump_mode: those the device can echo
\* (codes within Values) and one it cannot
ModeInputs == {m \in PumpModeNames : PumpMode[m] <= 2 * MaxVal}

SeqsUpTo(S, n) == UNION {[1..k -> S] : k \in 0..n}

\* arguments a caller may pass to get_filter_pump_data: the lists of at most
\* MaxLen members, the lists of one or two objects of which one is no member,
\* and a tuple (not a list) of a member
DataInputs ==
    {DataArg(TRUE, s) : s \in SeqsUpTo({d \in DataElements : d.cls = "PumpData"}, MaxLen)}
    \cup {DataArg(TRUE, s) : s \in {t \in SeqsUpTo(DataElements, 2) :
                                       \E i \in 1..Len(t) : t[i].cls # "PumpData"}}
    \cup {DataArg(FALSE, <<Member("PumpData", "TEMPERATURE")>>)}

\* the event loop runs two get_filter_pump_data calls side by side
TaskIds == {1, 2}

\* a task: not yet called ("idle"), suspended in its POST ("get_post"), or
\* ended ("done") with the response it consumed and what it handed back
NoTask == [pc |-> "idle", arg |-> NoArg, response |-> NoResponse, result |-> Pending]

\* PumpData in the order of its definition
PumpDataOrder == <<"TEMPERATURE", "PH_VALUE", "CURRENT_PUMP_MODE">>

\* the lists the concurrent callers pass: one to MaxLen distinct members, in
\* the order of the enumeration
TaskInputs ==
    {DataArg(TRUE, [i \in 1..Len(s) |-> Member("PumpData", PumpDataOrder[s[i]])]) :
        s \in {q \in SeqsUpTo(1..Len(PumpDataOrder), MaxLen) :
                  Len(q) >= 1 /\ \A i \in 1..(Len(q) - 1) : q[i] < q[i + 1]}}

-----------------------------------------------------------------------------
(* The state machine *)

Init ==
    /\ params = NoSid
    /\ current_data = EmptyMap
    /\ stack = <<>>
    /\ call = [fn |-> "__init__", arg |-> NoArg]
    /\ result = PyNone
    /\ trace = <<>>
    /\ last_response = NoResponse
    /\ seen = EmptyMap
    /\ tasks = [t \in TaskIds |-> NoTask]
    /\ sensors = [s \in SensorNames |-> NoSensor]

CallGetSessionId == Invoke("get_session_id", NoArg)

CallLogin == Invoke("login", NoArg)

CallAuthenticated == Invoke("authenticated", NoArg)

CallElevateServiceLevel == \E level \in LevelInputs : Invoke("elevate_service_level", LevelArg(level))

CallSetFilterPumpMode == \E mode \in ModeInputs : Invoke("set_filter_pump_mode", ModeArg(mode))

CallGetFilterPumpData == \E arg \in DataInputs : Invoke("get_filter_pump_data", arg)

CallAvailable == Invoke("available", NoArg)

\* line 30: GET base_url, answered
GetSessionIdResponse ==
    /\ At("sid_get")
    /\ \E r \in PageResponses :
          /\ params' = get_session_id_params(r, params)
          /\ Continue(Request("GET", "root", params, <<>>, <<>>), r,
                      get_session_id(r), get_session_id_params(r, params))
    /\ UNCHANGED <<current_data, seen>>

\* lines 85-87: GET cmd=2.17005.0, answered
AuthenticatedResponse ==
    /\ At("probe_get")
    /\ \E r \in PageResponses :
          Continue(Request("GET", "cmd=2.17005.0", params, <<>>, <<>>), r,
                   authenticated(r), params)
    /\ UNCHANGED <<params, current_data, seen>>

\* line 67: POST of the credentials, answered
LoginResponse ==
    /\ At("login_post")
    /\ \E r \in CommandResponses :
          Continue(Request("POST", "login", params, <<"9.17401.user", "9.17401.pass">>,
                           <<EventOf(r)>>), r, login_post(r), params)
    /\ UNCHANGED <<params, current_data, seen>>

\* line 132: GET cmd=1.1360.0, answered
PreflightResponse ==
    /\ At("elevate_preflight")
    /\ \E r \in PageResponses :
          Continue(Request("GET", "cmd=1.1360.0", params, <<>>, PreflightOut(r)), r,
                   elevate_service_level_preflight(r), params)
    /\ UNCHANGED <<params, current_data, seen>>

\* line 155: POST of the unlock code, answered
UnlockResponse ==
    /\ At("elevate_post")
    /\ \E r \in CommandResponses :
          Continue(Request("POST", "unlock", params,
                           elevate_service_level_payload(Last(stack)), <<EventOf(r)>>), r,
                   elevate_service_level_post(Last(stack), r), params)
    /\ UNCHANGED <<params, current_data, seen>>

\* lines 158-160: GET cmd=3.16912.0, answered
ConfirmResponse ==
    /\ At("elevate_confirm")
    /\ \E r \in PageResponses :
          Continue(Request("GET", "cmd=3.16912.0", params, <<>>,
                           <<IF r.kind = "error" THEN -1 ELSE r.status>>), r,
                   elevate_service_level_confirm(Last(stack), r), params)
    /\ UNCHANGED <<params, current_data, seen>>

\* line 188: POST of the get+set command, answered
SetFilterPumpModeResponse ==
    /\ At("set_post")
    /\ \E r \in PumpResponses :
          /\ current_data' = set_filter_pump_mode_data(r, current_data)
          /\ Continue(Request("POST", "pump", params, <<PumpMode[Last(stack).arg.mode]>>, <<>>),
                      r, set_filter_pump_mode_post(Last(stack), r), params)
    /\ UNCHANGED <<params, seen>>

\* lines 229-232: POST of the get command, answered
GetFilterPumpDataResponse ==
    /\ At("get_post")
    /\ \E r \in DataResponses :
          /\ current_data' = get_filter_pump_data_update(r, current_data)
          /\ seen' = IF r.kind = "http" /\ r.json.parse = "object" /\ r.json.hasData
                     THEN [k \in DOMAIN seen \cup DOMAIN r.json.data |->
                              IF k \in DOMAIN r.json.data THEN r.json.data[k] ELSE seen[k]]
                     ELSE seen
          /\ Continue(Request("POST", "get", params,
                              get_filter_pump_data_payload(Last(stack).arg), <<>>), r,
                      get_filter_pump_data_post(Last(stack), r,
                                                get_filter_pump_data_update(r, current_data)),
                      params)
    /\ UNCHANGED params

\* line 247: GET base_url, answered
AvailableResponse ==
    /\ At("available_get")
    /\ \E r \in PageResponses :
          Continue(Request("GET", "root", params, <<>>, <<>>), r, available(r), params)
    /\ UNCHANGED <<params, current_data, seen>>

\* lines 209-232 in task t: the argument is checked and the POST is sent
TaskCall(t) ==
    /\ Idle /\ tasks[t].pc = "idle"
    /\ \E arg \in TaskInputs :
          LET d == get_filter_pump_data_entry(arg)
          IN  tasks' = [tasks EXCEPT ![t] =
                           IF d.do = "goto" THEN [NoTask EXCEPT !.pc = d.pc, !.arg = arg]
                           ELSE [NoTask EXCEPT !.pc = "done", !.arg = arg, !.result = d.v]]
    /\ UNCHANGED <<params, current_data, stack, call, result, trace, last_response, seen,
                   sensors>>

\* lines 229-242 in task t: its POST is answered; nothing awaits between the
\* update of line 234 and the return of line 242
TaskResponse(t) ==
    /\ tasks[t].pc = "get_post"
    /\ \E r \in DataResponses :
          LET data == get_filter_pump_data_update(r, current_data)
              frame == Frame("get_filter_pump_data", "get_post", tasks[t].arg)
          IN  /\ current_data' = data
              /\ seen' = MergeData(seen, IF r.kind = "http" /\ r.json.parse = "object"
                                            /\ r.json.hasData
                                         THEN r.json.data ELSE EmptyMap)
              /\ tasks' = [tasks EXCEPT ![t] =
                               [pc |-> "done", arg |-> tasks[t].arg, response |-> r,
                                result |-> get_filter_pump_data_post(frame, r, data).v]]
    /\ UNCHANGED <<params, stack, call, result, trace, last_response, sensors>>

\* two get_filter_pump_data calls on one client, interleaved at their requests
ConcurrentNext ==
    \/ \E t \in TaskIds : TaskCall(t)
    \/ \E t \in TaskIds : TaskResponse(t)

\* sensor.py 83-85, 110-112 down to api.py 232: sensor s is polled and its
\* read is sent
SensorCall(s) ==
    /\ Idle /\ \A u \in SensorNames : sensors[u].pc = "idle"
    /\ LET d == get_filter_pump_data_entry(SensorArg(s))
           polled == [sensors[s] EXCEPT !.fetched = Pending, !.outcome = Pending]
       IN  sensors' = [sensors EXCEPT ![s] =
                          IF d.do = "goto" THEN [polled EXCEPT !.pc = d.pc]
                          ELSE async_update(s, polled, d.v)]
    /\ UNCHANGED <<params, current_data, stack, call, result, trace, last_response, seen,
                   tasks>>

\* api.py 229-242 up to the end of async_update: the read of sensor s is answered
SensorResponse(s) ==
    /\ sensors[s].pc = "get_post"
    /\ \E r \in DataResponses :
          LET data == get_filter_pump_data_update(r, current_data)
              frame == Frame("get_filter_pump_data", "get_post", SensorArg(s))
          IN  /\ current_data' = data
              /\ seen' = MergeData(seen, IF r.kind = "http" /\ r.json.parse = "object"
                                            /\ r.json.hasData
                                         THEN r.json.data ELSE EmptyMap)
              /\ sensors' = [sensors EXCEPT ![s] =
                                 async_update(s, sensors[s],
                                              get_filter_pump_data_post(frame, r, data).v)]
    /\ UNCHANGED <<params, stack, call, result, trace, last_response, tasks>>

\* the polling of the two sensors
SensorNext ==
    \/ \E s \in SensorNames : SensorCall(s)
    \/ \E s \in SensorNames : SensorResponse(s)

\* the session operations: bootstrap, probe, login, elevation, pump mode, reachability
SessionNext ==
    \/ CallGetSessionId
    \/ CallLogin
    \/ CallAuthenticated
    \/ CallElevateServiceLevel
    \/ CallSetFilterPumpMode
    \/ CallAvailable
    \/ GetSessionIdResponse
    \/ AuthenticatedResponse
    \/ LoginResponse
    \/ PreflightResponse
    \/ UnlockResponse
    \/ ConfirmResponse
    \/ SetFilterPumpModeResponse
    \/ AvailableResponse

\* the data operation
DataNext ==
    \/ CallGetFilterPumpData
    \/ GetFilterPumpDataResponse

Next == SessionNext \/ DataNext \/ ConcurrentNext \/ SensorNext

Spec == Init /\ [][Next]_vars

SessionSpec == Init /\ [][SessionNext]_vars

DataSpec == Init /\ [][DataNext]_vars

ConcurrentSpec == Init /\ [][ConcurrentNext]_vars

SensorSpec == Init /\ [][SensorNext]_vars

-----------------------------------------------------------------------------
(* Reading the log of an invocation *)

\* the invocation of fn has ended
Ended(fn) == Idle /\ call.fn = fn /\ result.kind # "pending"

\* positions of the log where a request of this kind was sent
Sent(what) == {i \in 1..Len(trace) : trace[i].req # "return" /\ trace[i].what = what}

\* positions of the log where coroutine fn handed back a value
Returns(fn) == {i \in 1..Len(trace) : trace[i].req = "return" /\ trace[i].what = fn}

ReturnedTrue(i) == trace[i].out = <<"return", "True">>

\* some request reached the transport
AnyRequest == \E i \in 1..Len(trace) : trace[i].req # "return"

\* the first authentication probe of the invocation handed back True / did not
FirstProbeTrue == Returns("authenticated") # {} /\ ReturnedTrue(Min(Returns("authenticated")))

FirstProbeFalse == Returns("authenticated") # {} /\ ~ReturnedTrue(Min(Returns("authenticated")))

\* the words of the first title element of a body, blanks dropped
TitleWords(text) ==
    LET opens == {i \in 1..Len(text) : text[i] = "<title>"}
        closes == {j \in 1..Len(text) : text[j] = "</title>" /\ opens # {} /\ j > Min(opens)}
    IN  IF closes = {} THEN <<"<no title>">>
        ELSE SelectSeq(SubSeq(text, Min(opens) + 1, Min(closes) - 1), LAMBDA w : w # " ")

-----------------------------------------------------------------------------
(* Claims *)

\* C1: set_filter_pump_mode decides success by read-back: when the pump write
\* got a response whose data map holds the pump-mode key, the call returns
\* True if the echoed value is the mode's code and False if it differs.
C1_ReadBackDecides ==
    (/\ Ended("set_filter_pump_mode")
     /\ Sent("pump") # {}
     /\ last_response.kind = "http"
     /\ last_response.json.hasData
     /\ PumpData.CURRENT_PUMP_MODE \in DOMAIN last_response.json.data)
    => result = PyBool(last_response.json.data[PumpData.CURRENT_PUMP_MODE]
                          = PumpMode[call.arg.mode])

\* C2: set_filter_pump_mode never propagates an exception: it ends by
\* returning True or False whatever its requests were answered.
C2_SetNeverRaises ==
    Ended("set_filter_pump_mode") => result \in {PyTrue, PyFalse}

\* C3: a login() whose first probe was false returns True only if the
\* credential write was answered with event data "3.16912.0" and the probe
\* made after the write returned True.
C3_LoginSuccessConfirmed ==
    (Ended("login") /\ FirstProbeFalse /\ result = PyTrue)
    => \E i \in Sent("login") :
          /\ trace[i].out = <<"3.16912.0">>
          /\ \E j \in Returns("authenticated") : j > i /\ ReturnedTrue(j)

\* C3 witness: a login that wrote the credentials and was confirmed
C3_Witness ==
    Ended("login") /\ FirstProbeFalse /\ result = PyTrue /\ Sent("login") # {}

\* C4: login() never raises and always returns a boolean.
C4_LoginReturnsBoolean ==
    Ended("login") => result \in {PyTrue, PyFalse}

\* C5: a login() whose first probe is true returns True and sends no
\* credential write, whatever calls preceded it.
C5_LoginIdempotent ==
    (Ended("login") /\ FirstProbeTrue) => (result = PyTrue /\ Sent("login") = {})

\* C5 witness: a login on an authenticated session that holds a session id
\* from an earlier call
C5_Witness ==
    /\ Ended("login") /\ FirstProbeTrue /\ result = PyTrue
    /\ Sent("root") = {} /\ params # NoSid

\* C6: authenticated() returns True exactly when the title of the probe
\* response is "icon"; on any other title and on a transport failure it
\* returns False.
C6_ProbeClassifiesTitle ==
    Ended("authenticated") =>
        /\ Sent("cmd=2.17005.0") # {}
        /\ result = PyTrue <=>
              (last_response.kind = "http" /\ TitleWords(last_response.text) = <<"icon">>)
        /\ (\/ last_response.kind = "error"
            \/ /\ last_response.kind = "http"
               /\ TitleWords(last_response.text) \notin {<<"icon">>, <<"<no title>">>})
           => result = PyFalse

\* C6 witness: probes answered with a padded "icon" title, and with the
\* login-page marker in the title
C6_Witness ==
    /\ Ended("authenticated")
    /\ \/ result = PyTrue /\ last_response.text = Titled(<<" ", "icon", " ">>)
       \/ result = PyFalse /\ last_response.text = Titled(<<"Can Fig", " ", "Pool">>)

\* C7: authenticated() never raises, also on a body without a title element.
C7_ProbeNeverRaises ==
    Ended("authenticated") => result.kind = "return"

\* the wire keys of the data points the caller asked for
Requested == {PumpData[call.arg.data[i].name] : i \in 1..Len(call.arg.data)}

\* the arguments of get_filter_pump_data the specification calls invalid
InvalidData ==
    \/ call.arg.data = <<>>
    \/ \E i \in 1..Len(call.arg.data) : call.arg.data[i].cls # "PumpData"

\* the data map of the response that ended the invocation
Supplied == last_response.json.data

\* C8 as stated: a get_filter_pump_data that returns has exactly the requested
\* entries, each with the value this call's response supplied for its key.
C8_ValuesFromThisResponse ==
    (Ended("get_filter_pump_data") /\ call.arg.data # <<>> /\ result.kind = "return")
    => /\ DOMAIN result.map = Requested
       /\ \A k \in Requested : k \in DOMAIN Supplied /\ result.map[k] = Supplied[k]

\* C8 amended: a get_filter_pump_data that returns has exactly the requested
\* entries; an entry has the value this call's response supplied for its key
\* when the response holds the key, and otherwise the value the snapshot held
\* for it before the call.
C8_ValuesFromMergedSnapshot ==
    [][(At("get_post") /\ Idle' /\ result'.kind = "return" /\ call.arg.data # <<>>)
       => /\ DOMAIN result'.map = Requested
          /\ \A k \in Requested :
                result'.map[k] = IF k \in DOMAIN last_response'.json.data
                                 THEN last_response'.json.data[k]
                                 ELSE current_data[k]]_vars

\* C8 witness: a call that returned one value of its response and one the
\* response did not hold
C8_Witness ==
    /\ Ended("get_filter_pump_data") /\ result.kind = "return"
    /\ \E k \in Requested : k \in DOMAIN Supplied
    /\ \E k \in Requested : k \notin DOMAIN Supplied

\* C9: get_filter_pump_data with an empty list, or with an element that is no
\* PumpData member, raises and sends no request.
C9_InvalidInputRejected ==
    (Ended("get_filter_pump_data") /\ InvalidData)
    => (result.kind = "raise" /\ ~AnyRequest)

\* C10: the snapshot is merged, not replaced: it holds for every wire key any
\* response supplied the value of the latest response that held the key.
C10_SnapshotMerged == current_data = seen

\* C10 witness: after a call answered with exactly the requested keys the
\* snapshot still holds a key of an earlier call
C10_Witness ==
    /\ Ended("get_filter_pump_data") /\ result.kind = "return"
    /\ DOMAIN Supplied = Requested
    /\ \E k \in DOMAIN current_data : k \notin Requested

-----------------------------------------------------------------------------
(* Claims on elevation *)

\* the log entry of the preflight read of the invocation
Preflight == trace[Min(Sent("cmd=1.1360.0"))].out

\* the preflight read was answered with a body that has a title
PreflightTitled == Sent("cmd=1.1360.0") # {} /\ Preflight[1] = "title"

\* C11: elevate_service_level with a level other than 1 or 2 raises
\* ValueError before any request reaches the transport.
C11_InvalidLevelRejected ==
    (Ended("elevate_service_level") /\ call.arg.level \notin {1, 2})
    => (result = PyRaise("ValueError") /\ ~AnyRequest)

\* C11 witness: an elevation with the level 0 or 3 has ended
C11_Witness ==
    Ended("elevate_service_level") /\ call.arg.level \in {0, 3} /\ result.kind = "raise"

\* C12: an elevate_service_level(1 or 2) whose preflight read is answered with
\* the title "menu" returns True without an unlock write or a confirmation
\* read; with a title that is neither "access" nor "menu" it returns False,
\* also without a write.
C12_PreflightDecides ==
    (Ended("elevate_service_level") /\ call.arg.level \in {1, 2} /\ PreflightTitled)
    => /\ Preflight[2] = <<"menu">>
            => (result = PyTrue /\ Sent("unlock") = {} /\ Sent("cmd=3.16912.0") = {})
       /\ Preflight[2] \notin {<<"menu">>, <<"access">>}
            => (result = PyFalse /\ Sent("unlock") = {} /\ Sent("cmd=3.16912.0") = {})

\* C12 witness: an elevation on an authenticated session that found the level
\* already elevated
C12_Witness ==
    /\ Ended("elevate_service_level") /\ FirstProbeTrue /\ PreflightTitled
    /\ Preflight[2] = <<"menu">> /\ result = PyTrue

\* the unlock code the specification gives for a level
UnlockCode(level) == IF level = 1 THEN 1234 ELSE 5678

\* the elevation has ended and its preflight read was answered with the title "access"
AccessPath ==
    /\ Ended("elevate_service_level") /\ call.arg.level \in {1, 2}
    /\ PreflightTitled /\ Preflight[2] = <<"access">>

\* the log entries of the unlock write and of the confirmation read
Unlock == trace[Min(Sent("unlock"))]

Confirm == trace[Min(Sent("cmd=3.16912.0"))]

\* On the access path: without a code field in the body the call returns False
\* and writes nothing; otherwise it writes the level's code to the first code
\* field once, reads the confirmation when the write was answered, and returns
\* True exactly when the write's event data is "1.1360.0" and the status of the
\* confirmation read is a success by Success.
AccessPathDecides(Success(_)) ==
    AccessPath =>
        /\ result \in {PyTrue, PyFalse}
        /\ Preflight[3] = <<>> => (result = PyFalse /\ Sent("unlock") = {})
        /\ Preflight[3] # <<>> =>
              /\ Cardinality(Sent("unlock")) = 1
              /\ Unlock.pay = <<Preflight[3][1], UnlockCode(call.arg.level)>>
              /\ Unlock.out # <<"<error>">> <=> Sent("cmd=3.16912.0") # {}
              /\ \A j \in Sent("cmd=3.16912.0") : j > Min(Sent("unlock"))
              /\ result = PyTrue <=>
                    /\ Unlock.out = <<"1.1360.0">>
                    /\ Sent("cmd=3.16912.0") # {}
                    /\ Success(Confirm.out[1])

SuccessClass(status) == status \in 200..299

StatusOk(status) == status = 200

\* C13 as stated: on the access path elevate_service_level writes the level's
\* unlock code to the extracted field, reads the confirmation, and returns True
\* exactly when the write's event data is "1.1360.0" and the confirmation read
\* returns an HTTP success status; it returns False when no field name is found
\* or a step fails.
C13_AccessPathHttpSuccess == AccessPathDecides(SuccessClass)

\* C13 amended: the same, with success of the confirmation read meaning the
\* status 200 exactly.
C13_AccessPathStatus200 == AccessPathDecides(StatusOk)

\* C13 witness: an elevation that wrote the code to the first of two code
\* fields and was confirmed
C13_Witness ==
    /\ AccessPath /\ result = PyTrue
    /\ Len(Preflight[3]) = 2 /\ Unlock.pay[1] = "42.8022.code"

-----------------------------------------------------------------------------
(* Claims on the session id *)

\* the tokens of the initialization markers wui.init('<token>' of a page
MarkerTokens(text) ==
    {t \in Tokens : \E i \in 1..(Len(text) - 2) :
                       text[i] = "wui.init('" /\ text[i + 1] = t /\ text[i + 2] = "'"}

\* every request of the log that no later bootstrap request follows carries
\* the sid the client holds
RequestsCarrySid ==
    \A i \in 1..Len(trace) :
        (trace[i].req # "return" /\ \A j \in Sent("root") : j < i)
        => trace[i].sid = params

\* C14: a get_session_id answered with a page holding the marker with token T
\* returns True and stores T, which every later request carries as sid until
\* a later successful bootstrap; on a transport error or a page without the
\* marker it returns False and leaves the session parameters as they were.
C14_BootstrapStoresSid ==
    [][/\ (At("sid_get") /\ call.fn = "get_session_id") =>
              IF last_response'.kind = "http" /\ MarkerTokens(last_response'.text) # {}
              THEN result' = PyTrue /\ {params'} = MarkerTokens(last_response'.text)
              ELSE result' = PyFalse /\ params' = params
       /\ params' # params => (At("sid_get") /\ params' \in Tokens)
       /\ RequestsCarrySid']_vars

\* C14 witness: the probe of a later call carries the token of a bootstrap
C14_Witness ==
    /\ Ended("authenticated") /\ params = "ZZ99"
    /\ Sent("cmd=2.17005.0") # {} /\ trace[1].sid = "ZZ99"

-----------------------------------------------------------------------------
(* Claims on reachability and on the order of privileged requests *)

\* the root page of an ended available() was answered with a status in codes
AnsweredWith(codes) == last_response.kind = "http" /\ last_response.status \in codes

\* C15 as stated: available() never raises and returns true exactly when the
\* GET of the root endpoint is answered with a success-class (2xx) status.
C15_AvailableHttpSuccess ==
    Ended("available") => result = PyBool(AnsweredWith(200..299))

\* C15 as the code has it: available() never raises and returns true exactly
\* when the GET of the root endpoint is answered with status 200; a transport
\* exception and every other status, 2xx ones included, yield false.
C15_AvailableStatus200 ==
    Ended("available") => result = PyBool(AnsweredWith({200}))

\* C15 witness: a root page answered 204 makes available() false
C15_Witness ==
    Ended("available") /\ Sent("root") # {} /\ AnsweredWith({204}) /\ result = PyFalse

\* some coroutine fn of the invocation handed back True before position i
TrueBefore(fn, i) == \E j \in Returns(fn) : j < i /\ ReturnedTrue(j)

\* the first value coroutine fn handed back in the invocation was not True
FirstNotTrue(fn) == Returns(fn) # {} /\ ~ReturnedTrue(Min(Returns(fn)))

\* in set_filter_pump_mode: neither the probe of line 173 nor the login of
\* line 174 handed back True
SetAuthenticationFailed ==
    /\ FirstNotTrue("authenticated")
    /\ Returns("login") = {} \/ FirstNotTrue("login")

\* every pump write of the log follows a probe or login that handed back True
\* and an elevation that handed back True
WriteFollowsChecks ==
    \A i \in Sent("pump") :
        /\ TrueBefore("authenticated", i) \/ TrueBefore("login", i)
        /\ TrueBefore("elevate_service_level", i)

\* C16: set_filter_pump_mode sends the pump write only after, in the same call,
\* a probe or login() handed back True and elevate(2) handed back True; when
\* authentication or elevation fails the call returns False and the write is
\* never sent.
C16_WriteOnlyAfterChecks ==
    Ended("set_filter_pump_mode") =>
        /\ WriteFollowsChecks
        /\ (SetAuthenticationFailed \/ FirstNotTrue("elevate_service_level"))
               => (result = PyFalse /\ Sent("pump") = {})

\* the ordering half of C16 alone
SetWriteFollowsChecks == call.fn = "set_filter_pump_mode" => WriteFollowsChecks

-----------------------------------------------------------------------------
(* Claims on recovering and ensuring the session *)

\* the invocation began while the client held a sid, and its first probe found
\* the server no longer recognizing it
SessionLost ==
    /\ trace # <<>> /\ trace[1].req # "return"
    /\ trace[1].what = "cmd=2.17005.0" /\ trace[1].sid # NoSid
    /\ Returns("authenticated") # {}
    /\ trace[Min(Returns("authenticated"))].out = <<"return", "False">>

\* C17: when the server stops recognizing the sid the client holds, the next
\* login(), called directly or through elevate_service_level or
\* set_filter_pump_mode, performs a fresh bootstrap before it writes the
\* credentials, and the write carries the sid of that bootstrap.
C17_LoginBootstrapsAfresh ==
    (/\ Idle /\ call.fn \in {"login", "elevate_service_level", "set_filter_pump_mode"}
     /\ SessionLost /\ Sent("login") # {})
    => \E b \in Sent("root") :
           /\ b < Min(Sent("login"))
           /\ TrueBefore("get_session_id", Min(Sent("login")))

\* the first probe of the invocation handed back False
FirstProbeReturnedFalse ==
    Returns("authenticated") # {}
    /\ trace[Min(Returns("authenticated"))].out = <<"return", "False">>

\* none of the three requests of the elevation proper was sent
NoElevationRequest ==
    Sent("cmd=1.1360.0") = {} /\ Sent("unlock") = {} /\ Sent("cmd=3.16912.0") = {}

\* what C19 says of an ended elevate_service_level(1 or 2), Failure being the
\* outcomes that count as the call reporting failure
ElevateAuthenticatesFirst(Failure) ==
    (Ended("elevate_service_level") /\ call.arg.level \in {1, 2}) =>
        /\ trace[1].req # "return" /\ trace[1].what = "cmd=2.17005.0"
        /\ FirstProbeReturnedFalse => Returns("login") # {}
        /\ (FirstProbeReturnedFalse /\ FirstNotTrue("login"))
               => (result \in Failure /\ NoElevationRequest)

\* C19: elevate_service_level(1 or 2) starts with an authentication probe;
\* when the probe is False it calls login(), and when that login does not
\* succeed it returns False without sending the preflight read, the unlock
\* write or the confirmation read.
C19_ElevateLoginFailureReturnsFalse == ElevateAuthenticatesFirst({PyFalse})

\* the same with an exception of login() passed on to the caller counted as
\* the failure
ElevateLoginFailureEndsCall ==
    ElevateAuthenticatesFirst({PyFalse, PyRaise("KeyError"), PyRaise("AttributeError"),
                               PyRaise("TypeError")})

\* C20: whenever login() sends the credential write a session id is attached
\* to the request parameters; when no session id is held and the bootstrap
\* fails, no credential write is sent.
C20_LoginWriteCarriesSid ==
    /\ \A i \in Sent("login") : trace[i].sid # NoSid
    /\ (call.fn = "login" /\ FirstNotTrue("get_session_id")) => Sent("login") = {}

-----------------------------------------------------------------------------
(* Claims on the snapshot under failed reads *)

\* the data map response r supplied, empty when it supplied none
SuppliedBy(r) ==
    IF r.kind = "http" /\ r.json.parse = "object" /\ r.json.hasData THEN r.json.data
    ELSE EmptyMap

\* this step ends a get_filter_pump_data in an exception
GetFails == At("get_post") /\ Idle' /\ result'.kind = "raise"

\* key k has in the snapshot after the step what it had before it
Kept(k) ==
    k \in DOMAIN current_data /\ k \in DOMAIN current_data' /\ current_data'[k] = current_data[k]

\* every value the snapshot holds after the step was there before it or was
\* supplied for its key by the response that this step handled
ValuesFromDevice ==
    \A k \in DOMAIN current_data' :
        \/ Kept(k)
        \/ /\ At("get_post")
           /\ k \in DOMAIN SuppliedBy(last_response')
           /\ current_data'[k] = SuppliedBy(last_response')[k]

\* C18 as stated: a get_filter_pump_data that fails (transport error,
\* unparsable response, response without a data map, response lacking a
\* requested key) leaves the value of every data point it did not request
\* unchanged, and the snapshot never holds a value that did not come from a
\* device response.
C18_FailureKeepsUnrequested ==
    [][/\ GetFails => \A k \in DOMAIN current_data \ Requested : Kept(k)
       /\ ValuesFromDevice]_vars

\* C18 amended: a get_filter_pump_data that fails by a transport error, an
\* unparsable response or a response without a data map leaves the snapshot
\* unchanged; one that fails because the response lacks a requested key has
\* merged that response first, so it leaves unchanged the value of every data
\* point the response did not hold; the snapshot never holds a value that did
\* not come from a device response.
C18_FailureKeepsUnsupplied ==
    [][/\ GetFails =>
             /\ \A k \in DOMAIN current_data \ DOMAIN SuppliedBy(last_response') : Kept(k)
             /\ result' # PyRaise("KeyError") => current_data' = current_data
       /\ ValuesFromDevice]_vars

\* C18 witness: a call failed for a key its response lacked; the response
\* supplied a data point that was not requested and another one was kept
C18_Witness ==
    /\ Ended("get_filter_pump_data") /\ result = PyRaise("KeyError")
    /\ \E k \in DOMAIN current_data \ Requested : k \in DOMAIN Supplied
    /\ \E k \in DOMAIN current_data \ Requested : k \notin DOMAIN Supplied

-----------------------------------------------------------------------------
(* Claims on what a failed call leaves behind *)

\* a login, elevation or pump-mode call ended by returning something other
\* than True
ReturnedFailure ==
    /\ Idle /\ call.fn \in {"login", "elevate_service_level", "set_filter_pump_mode"}
    /\ result.kind = "return" /\ result # PyTrue
    /\ trace # <<>> /\ trace[1].req # "return"

\* the sid the client held when the invocation began: the one its first
\* request carried
SidAtCall == trace[1].sid

\* between two credential writes of the log a login() handed back
OneWritePerLogin ==
    \A i, j \in Sent("login") : i < j => \E k \in Returns("login") : i < k /\ k < j

\* C21 as stated: a login, elevate_service_level or set_filter_pump_mode that
\* returns failure leaves the sid of the session as it was before the call,
\* and login() sends at most one credential write per call.
C21_FailureKeepsSid ==
    ReturnedFailure => (params = SidAtCall /\ OneWritePerLogin)

\* C21 amended: such a call leaves the sid as it was when the client held one
\* before the call, and requests no root page then; when it held none, the
\* sid afterwards is the one the bootstrap of login() stored, if that
\* bootstrap handed back True, and none otherwise.  login() sends at most one
\* credential write per call.
C21_FailureKeepsHeldSid ==
    ReturnedFailure =>
        /\ SidAtCall # NoSid => (params = SidAtCall /\ Sent("root") = {})
        /\ SidAtCall = NoSid =>
               (params # NoSid <=> TrueBefore("get_session_id", Len(trace) + 1))
        /\ OneWritePerLogin

\* C21 witness: a login that held a sid, wrote the credentials and returned
\* False still holds that sid
C21_Witness ==
    /\ ReturnedFailure /\ call.fn = "login" /\ result = PyFalse
    /\ SidAtCall # NoSid /\ Sent("login") # {} /\ params = SidAtCall

-----------------------------------------------------------------------------
(* Claims on concurrent reads *)

\* the wire keys task t requested
TaskRequested(t) == Range(get_filter_pump_data_payload(tasks[t].arg))

\* the data map the response of task t supplied
TaskSupplied(t) == SuppliedBy(tasks[t].response)

\* task t ended by handing back a dict
TaskReturned(t) == tasks[t].pc = "done" /\ tasks[t].result.kind = "return"

BothDone == \A t \in TaskIds : tasks[t].pc = "done"

\* every key of the snapshot holds a value one of the two responses supplied
SnapshotFromResponses ==
    \A k \in DOMAIN current_data :
        \E t \in TaskIds : k \in DOMAIN TaskSupplied(t) /\ current_data[k] = TaskSupplied(t)[k]

-----------------------------------------------------------------------------
(* Claims on the sensors *)

\* an async_update of sensor s has ended
Updated(s) == sensors[s].pc = "idle" /\ sensors[s].fetched.kind # "pending"

\* its get_filter_pump_data handed back a dict
FetchSucceeded(s) == sensors[s].fetched.kind = "return"

\* the value that dict holds for the member the sensor fetches
FetchedValue(s) == sensors[s].fetched.map[PumpData[SensorData[s]]]

\* C23: after a successful fetch the temperature sensor's state is the
\* temperature the device returned and the pump-mode sensor's state is the
\* PumpMode whose code the device returned, the sensor being available; after
\* a failed fetch the sensor is unavailable and its state is None; the update
\* does not raise.
C23_ReadingsReflectFetch ==
    \A s \in SensorNames : Updated(s) =>
        /\ sensors[s].outcome.kind # "raise"
        /\ FetchSucceeded(s) =>
              /\ sensors[s].available
              /\ s = "temperature" => state(sensors[s]) = NumberReading(FetchedValue(s))
              /\ s = "pump_mode" =>
                    \E name \in PumpModeOf(FetchedValue(s)) :
                        state(sensors[s]) = ModeReading(name)
        /\ ~FetchSucceeded(s) =>
              (~sensors[s].available /\ state(sensors[s]) = NoReading)

\* what of C23 the code does: a successful fetch marks the sensor available,
\* a failed one marks it unavailable with state None and does not raise
FetchMarksAvailability ==
    \A s \in SensorNames : Updated(s) =>
        /\ sensors[s].available <=> FetchSucceeded(s)
        /\ ~FetchSucceeded(s) =>
              (state(sensors[s]) = NoReading /\ sensors[s].outcome = PyNone)

====
